---------------------------- MODULE Spec2Model ----------------------------
(***************************************************************************)
(* Model of the RNA-seq duplicate-check batch script (main.py, utils.py).  *)
(*                                                                         *)
(* A text string is a sequence of atoms: identifiers are sequences of      *)
(* single characters (so that str.startswith is computed), literal pieces  *)
(* of a command are one atom each, and f-string interpolation is \o.       *)
(* An Airtable record is a function whose domain holds only the fields     *)
(* that are filled in: Airtable leaves an empty field out of "fields".     *)
(***************************************************************************)
EXTENDS Integers, Sequences, FiniteSets, TLC

(* ------------------------------ bounds -------------------------------- *)
\* Rows one Airtable table holds; the two tables together hold at most one more.
MaxRows == 2

(* --------------------------- program constants ------------------------ *)
SAMPLE_ID_COL == "sample_id"
TISSUE_COL == "tissue"
BAM_COL == "bam_path"
DEFAULT_CPU == 16
DEFAULT_STORAGE == "50G"
DATA_PATHS_TABLE_ID == "data_paths"
DOWNSTREAM_ANALYSIS_TABLE_ID == "downstream_analysis"
GCLOUD_CREDENTIALS == <<"#####">>
GCLOUD_USR_ACCOUNT == <<"#####">>
GCLOUD_PROJECT == <<"t#####">>

(* ------------------------------ inputs -------------------------------- *)
GTEX1 == <<"G", "T", "E", "X", "-", "1">>
RDG7 == <<"R", "D", "G", "-", "7">>
ABSENT9 == <<"R", "D", "G", "-", "9">>
TableIds == {GTEX1, RDG7}
\* The lists given with -s; <<>> stands for the flag not being given.
SLists == {<<>>, <<RDG7>>, <<ABSENT9>>, <<GTEX1, RDG7>>, <<RDG7, RDG7>>, <<RDG7, ABSENT9>>}
Tissues == {"Muscle", "muscle"}
Sizes == {0, 1025}
OutDirs == {<<"gs://out">>}
Projects == {<<"rp-proj">>}

\* The value pandas/numpy hold for a cell whose field is not filled in.
NaN == <<"NaN">>
\* What "no such field" is for the two optional fields of a generated row.
NoId == <<>>
NoTissue == ""

BamOf(id) ==
    IF id = GTEX1 THEN <<"gs://bam/a.bam">>
    ELSE IF id = RDG7 THEN <<"gs://bam/b.bam">>
    ELSE <<"gs://bam/c.bam">>
Bams == {BamOf(i) : i \in TableIds \cup {NoId}}

MkRow(id, tissue) ==
    [k \in ({BAM_COL} \cup (IF id = NoId THEN {} ELSE {SAMPLE_ID_COL})
                      \cup (IF tissue = NoTissue THEN {} ELSE {TISSUE_COL}))
        |-> IF k = SAMPLE_ID_COL THEN id
            ELSE IF k = TISSUE_COL THEN tissue
            ELSE BamOf(id)]
Rows == {MkRow(i, t) : i \in TableIds \cup {NoId}, t \in Tissues \cup {NoTissue}}
SeqsUpTo(S, n) == UNION {[1..k -> S] : k \in 0..n}

Range(s) == {s[k] : k \in 1..Len(s)}

(* ----------------------------- the state ------------------------------ *)
VARIABLES
    args,          \* parsed command line: s (<<>> when -s is not given), tissue, out_dir, requester_pays_project
    airtable,      \* the rows the hosted tables returned, by table id (<<>> until fetched)
    fs,            \* cloud storage: bam path -> size, for the paths stat'ed so far
    pc,            \* position in __main__ / main
    rd_samples,    \* DataFrame of the data-paths table
    new_muscle_rd_samples, \* its tissue-filtered rows (line 180)
    gtex_samples,  \* DataFrame of the downstream-analysis table (after line 185: prefix-filtered)
    rd_cohort,     \* rd_sample_ids / rd_bam_files
    gtex_cohort,   \* gtex_sample_ids / gtex_bam_files
    i,             \* loop index of run_samples
    batch,         \* the hb.Batch: its jobs and its write_output calls
    calls,         \* the calls of run_samples made so far
    fetched,       \* the table ids read_from_airtable was called with
    runs,          \* number of batch.run() calls
    raised         \* the exception that ended the process, "" if none

vars == <<args, airtable, fs, pc, rd_samples, new_muscle_rd_samples, gtex_samples, rd_cohort, gtex_cohort,
          i, batch, calls, fetched, runs, raised>>

(* ------------------------ strings and formatting ---------------------- *)
\* f"{x}" of a cell value: a missing cell is the float nan.
Fstr(x) == IF x = NaN THEN <<"n", "a", "n">> ELSE x

\* str.startswith(prefix) on a string.
StartsWith(s, prefix) ==
    /\ Len(s) >= Len(prefix)
    /\ SubSeq(s, 1, Len(prefix)) = prefix

GTEX_PREFIX == <<"G", "T", "E", "X">>

(* ------------------------------ DataFrame ----------------------------- *)
EmptyDF == [columns |-> {}, rows |-> <<>>]

\* pd.DataFrame(list of dicts): the columns are the keys that occur.
DataFrame(records) ==
    [columns |-> UNION {DOMAIN records[k] : k \in 1..Len(records)},
     rows |-> records]

\* df[col][k]
Cell(row, col) == IF col \in DOMAIN row THEN row[col] ELSE NaN

\* df[mask]: boolean indexing keeps the rows whose mask entry is True, in order.
RECURSIVE BoolIndex(_, _)
BoolIndex(rows, mask) ==
    IF rows = <<>> THEN <<>>
    ELSE (IF Head(mask) THEN <<Head(rows)>> ELSE <<>>)
         \o BoolIndex(Tail(rows), Tail(mask))


(* ------------------------- utils.py: identity switch ------------------ *)
\* gcloud_auth_activate_service_account: the one command it appends.
ActivateServiceAccountCmd ==
    <<"gcloud auth activate-service-account --key-file /gsa-key/key.json">>

\* The parameter checks of switch_gcloud_auth_to_user_account: the exception
\* raised, "" if none.
SwitchParamError(gcloud_credentials_path, gcloud_user_account, gcloud_project) ==
    IF gcloud_credentials_path = <<>> THEN "ValueError: gcloud_credentials_path not specified."
    ELSE IF gcloud_user_account = <<>> THEN "ValueError: gcloud_user_account not specified."
    ELSE IF gcloud_project = <<>> THEN "ValueError: gcloud_project not specified."
    ELSE ""

\* The commands switch_gcloud_auth_to_user_account appends, in order.
SwitchGcloudAuthToUserAccount(gcloud_credentials_path, gcloud_user_account, gcloud_project) ==
    << ActivateServiceAccountCmd,
       <<"gsutil -m cp -r ">> \o gcloud_credentials_path \o <<"/.config">> \o <<" /tmp/">>,
       <<"rm -rf ~/.config">>,
       <<"mv /tmp/.config ~/">>,
       <<"gcloud config set account ">> \o gcloud_user_account,
       <<"gcloud config set project ">> \o gcloud_project,
       <<"export GOOGLE_APPLICATION_CREDENTIALS=$(find ~/.config/ -name 'adc.json')">> >>

SwitchAccountError ==
    SwitchParamError(GCLOUD_CREDENTIALS, GCLOUD_USR_ACCOUNT, GCLOUD_PROJECT)

SwitchAccountForGtex ==
    SwitchGcloudAuthToUserAccount(GCLOUD_CREDENTIALS, GCLOUD_USR_ACCOUNT, GCLOUD_PROJECT)

(* --------------------------- main.py: job builder --------------------- *)
\* str() of the resource file batch.read_input(path) returns.
ReadInput(path) == <<"${input:">> \o path \o <<"}">>

\* str() of job.ofile of the job with the given uid (its position in the batch).
Ofile(uid) == <<"${job-", ToString(uid), ".ofile}">>

NewJob(name, uid) ==
    [name |-> name, uid |-> uid, cmds |-> <<>>, storage |-> <<>>, cpu |-> <<>>]

\* The command create_symbolic_links appends.
CreateSymbolicLinks(path, link_path, is_gtex) ==
    IF is_gtex
    THEN <<"gsutil -u ">> \o args.requester_pays_project \o <<" -m cp ">>
             \o path \o <<" ">> \o link_path
    ELSE <<"ln -s ">> \o ReadInput(path) \o <<" ">> \o link_path

SwitchIf(is_gtex) == IF is_gtex THEN SwitchAccountForGtex ELSE <<>>

\* Each get_* gives the commands it appends to its job and the destination it
\* hands to batch.write_output together with job.ofile.
GetMarkDuplicates_CopyBeforeTool(ofile, sample_id, bam_file, is_gtex) ==
    [cmds |-> SwitchIf(is_gtex) \o
         << <<"cd /io">>,
            <<"ls -lh .">>,
            CreateSymbolicLinks(bam_file, Fstr(sample_id) \o <<".bam">>, is_gtex),
            <<"cp marked_dup_metrics.txt ">> \o ofile \o <<" ">>,
            <<"java -jar /base/usr/picard/picard.jar MarkDuplicates ", "I=">>
                \o Fstr(sample_id) \o <<".bam ", "O=">>
                \o Fstr(sample_id) \o <<".mark_dup.bam ", "M=marked_dup_metrics.txt">>,
            <<"ls -lh .">> >>,
     dest |-> args.out_dir \o <<"/">> \o Fstr(sample_id) \o <<"_marked_dup_metrics.txt">>]

GetMarkDuplicates(ofile, sample_id, bam_file, is_gtex) ==
    [cmds |-> SwitchIf(is_gtex) \o
         << <<"cd /io">>,
            <<"ls -lh .">>,
            CreateSymbolicLinks(bam_file, Fstr(sample_id) \o <<".bam">>, is_gtex),
            <<"java -jar /base/usr/picard/picard.jar MarkDuplicates ", "I=">>
                \o Fstr(sample_id) \o <<".bam ", "O=">>
                \o Fstr(sample_id) \o <<".mark_dup.bam ", "M=marked_dup_metrics.txt">>,
            <<"ls -lh .">>,
            <<"cp marked_dup_metrics.txt ">> \o ofile \o <<" ">> >>,
     dest |-> args.out_dir \o <<"/">> \o Fstr(sample_id) \o <<"_marked_dup_metrics.txt">>]

GetFasqc(ofile, sample_id, bam_file, is_gtex) ==
    [cmds |-> SwitchIf(is_gtex) \o
         << <<"cd /io">>,
            CreateSymbolicLinks(bam_file, Fstr(sample_id) \o <<".bam">>, is_gtex),
            <<"fastqc ">> \o Fstr(sample_id) \o <<".bam">>,
            <<"ls -lh .">>,
            <<"cp *.html ">> \o ofile \o <<" ">> >>,
     dest |-> args.out_dir \o <<"/">> \o Fstr(sample_id) \o <<".html">>]

GetReadCount_HtmlDest(ofile, sample_id, bam_file, is_gtex) ==
    [cmds |-> SwitchIf(is_gtex) \o
         << <<"cd /io">>,
            CreateSymbolicLinks(bam_file, Fstr(sample_id) \o <<".bam">>, is_gtex),
            <<"samtools view -c ">> \o Fstr(sample_id) \o <<".bam > ">> \o ofile,
            <<"samtools view -c -F 260 ">> \o Fstr(sample_id) \o <<".bam >> ">> \o ofile >>,
     dest |-> args.out_dir \o <<"/">> \o Fstr(sample_id) \o <<".html">>]

GetReadCount(ofile, sample_id, bam_file, is_gtex) ==
    [cmds |-> SwitchIf(is_gtex) \o
         << <<"cd /io">>,
            CreateSymbolicLinks(bam_file, Fstr(sample_id) \o <<".bam">>, is_gtex),
            <<"samtools view -c ">> \o Fstr(sample_id) \o <<".bam > ">> \o ofile,
            <<"samtools view -c -F 260 ">> \o Fstr(sample_id) \o <<".bam >> ">> \o ofile >>,
     dest |-> args.out_dir \o <<"/">> \o Fstr(sample_id) \o <<"_read_counts.txt">>]

ReadCountResources_RoundedUp(size) ==
    [storage |-> <<((size + 1023) \div 1024) * 1024>>, cpu |-> <<1>>]

\* cur_read_count_job.storage(hfs.stat(cur_bam).size); cur_read_count_job.cpu(1)
ReadCountResources(size) ==
    [storage |-> <<size>>, cpu |-> <<1>>]

\* The three batch.new_job calls of one loop iteration.
WithNewJobs(b, cur_id) ==
    LET n == Len(b.jobs) IN
    [b EXCEPT !.jobs = @ \o << NewJob(Fstr(cur_id) \o <<"_fastqc">>, n + 1),
                               NewJob(Fstr(cur_id) \o <<"_md">>, n + 2),
                               NewJob(Fstr(cur_id) \o <<"_read_count">>, n + 3) >>]

WithResources(b, size) ==
    LET n == Len(b.jobs)
        r == ReadCountResources(size) IN
    [b EXCEPT !.jobs[n].storage = r.storage, !.jobs[n].cpu = r.cpu]

\* get_fasqc, get_mark_duplicates, get_read_count on the three jobs just made.
WithCommands(b, cur_id, cur_bam, is_gtex) ==
    LET n == Len(b.jobs)
        fq == GetFasqc(Ofile(n - 2), cur_id, cur_bam, is_gtex)
        md == GetMarkDuplicates(Ofile(n - 1), cur_id, cur_bam, is_gtex)
        rc == GetReadCount(Ofile(n), cur_id, cur_bam, is_gtex) IN
    [b EXCEPT !.jobs[n - 2].cmds = @ \o fq.cmds,
              !.jobs[n - 1].cmds = @ \o md.cmds,
              !.jobs[n].cmds = @ \o rc.cmds,
              !.outputs = @ \o << [src |-> Ofile(n - 2), dest |-> fq.dest],
                                  [src |-> Ofile(n - 1), dest |-> md.dest],
                                  [src |-> Ofile(n), dest |-> rc.dest] >>]


(* --------------------------- main.py: selection ----------------------- *)
IsinMask_NaMatches(rows, col, ids_set) ==
    [k \in 1..Len(rows) |-> col \notin DOMAIN rows[k] \/ rows[k][col] \in ids_set]

\* df[col].isin(ids_set): a missing cell is in no set of strings.
IsinMask(rows, col, ids_set) ==
    [k \in 1..Len(rows) |-> col \in DOMAIN rows[k] /\ rows[k][col] \in ids_set]

Lower(v) == IF v = "Muscle" THEN "muscle" ELSE v

EqMask_IgnoreCase(rows, col, value) ==
    [k \in 1..Len(rows) |-> col \in DOMAIN rows[k] /\ Lower(rows[k][col]) = Lower(value)]

\* df[col] == value: exact comparison of the cell; a missing cell equals nothing.
EqMask(rows, col, value) ==
    [k \in 1..Len(rows) |-> col \in DOMAIN rows[k] /\ rows[k][col] = value]

\* df[col].str.startswith(prefix), for a column in which no cell is missing,
\* or under a string dtype that answers False for a missing cell.
StartsWithMask(rows, col, prefix) ==
    [k \in 1..Len(rows) |-> col \in DOMAIN rows[k] /\ StartsWith(rows[k][col], prefix)]

HasNa(rows, col) == \E k \in 1..Len(rows) : col \notin DOMAIN rows[k]

\* np.array(df[col])
Column(rows, col) == [k \in 1..Len(rows) |-> Cell(rows[k], col)]

RECURSIVE RowsInRequestOrder(_, _)
RowsInRequestOrder(rows, s) ==
    IF s = <<>> THEN <<>>
    ELSE BoolIndex(rows, IsinMask(rows, SAMPLE_ID_COL, {Head(s)}))
         \o RowsInRequestOrder(rows, Tail(s))

SelectById_RequestOrder(df, s) ==
    [df EXCEPT !.rows = RowsInRequestOrder(df.rows, s)]

\* rd_samples[rd_samples[SAMPLE_ID_COL].isin(set(args.s))]
SelectById(df, s) ==
    [df EXCEPT !.rows = BoolIndex(df.rows, IsinMask(df.rows, SAMPLE_ID_COL, Range(s)))]

\* df[df[TISSUE_COL] == args.tissue]
SelectByTissue(df, tissue) ==
    [df EXCEPT !.rows = BoolIndex(df.rows, EqMask(df.rows, TISSUE_COL, tissue))]

\* gtex_samples[gtex_samples[SAMPLE_ID_COL].str.startswith("GTEX")]
SelectByPrefix(df) ==
    [df EXCEPT !.rows = BoolIndex(df.rows, StartsWithMask(df.rows, SAMPLE_ID_COL, GTEX_PREFIX))]

\* The id and bam arrays handed to run_samples, with the frame they come from.
Cohort(df) ==
    [rows |-> df.rows,
     ids |-> Column(df.rows, SAMPLE_ID_COL),
     bams |-> Column(df.rows, BAM_COL)]

EmptyCohort == [rows |-> <<>>, ids |-> <<>>, bams |-> <<>>]

(* ------------------------------- actions ------------------------------ *)
Init ==
    /\ \E s \in SLists, t \in Tissues, o \in OutDirs, p \in Projects :
           args = [s |-> s, tissue |-> t, out_dir |-> o, requester_pays_project |-> p]
    /\ airtable = [t \in {DATA_PATHS_TABLE_ID, DOWNSTREAM_ANALYSIS_TABLE_ID} |-> <<>>]
    /\ fs = <<>>
    /\ pc = "read_rd"
    /\ rd_samples = EmptyDF
    /\ new_muscle_rd_samples = EmptyDF
    /\ gtex_samples = EmptyDF
    /\ rd_cohort = EmptyCohort
    /\ gtex_cohort = EmptyCohort
    /\ i = 0
    /\ batch = [jobs |-> <<>>, outputs |-> <<>>,
                default_cpu |-> DEFAULT_CPU, default_storage |-> DEFAULT_STORAGE]
    /\ calls = <<>>
    /\ fetched = <<>>
    /\ runs = 0
    /\ raised = ""

Raise_Swallowed(e) ==
    /\ raised' = raised
    /\ pc' = "main_returned"

\* An uncaught exception: nothing catches it, the process ends where it is.
Raise(e) ==
    /\ raised' = e
    /\ pc' = pc

Running(at) == pc = at /\ raised = ""

\* main, lines 167-169: read_from_airtable of the data-paths table.
ReadRdSamples ==
    /\ Running("read_rd")
    /\ fetched' = Append(fetched, DATA_PATHS_TABLE_ID)
    /\ \/ \E records \in SeqsUpTo(Rows, MaxRows) :
             /\ airtable' = [airtable EXCEPT ![DATA_PATHS_TABLE_ID] = records]
             /\ rd_samples' = DataFrame(records)
             /\ pc' = IF args.s # <<>> THEN "select_by_id" ELSE "select_by_tissue"
             /\ UNCHANGED raised
       \/ /\ Raise("HTTPError")
          /\ UNCHANGED <<rd_samples, airtable>>
    /\ UNCHANGED <<args, fs, new_muscle_rd_samples, gtex_samples, rd_cohort,
                   gtex_cohort, i, batch, calls, runs>>

\* main, lines 171-175 and the call of line 195.
SelectByIdStep ==
    /\ Running("select_by_id")
    /\ IF SAMPLE_ID_COL \notin rd_samples.columns \/ BAM_COL \notin rd_samples.columns
       THEN /\ Raise("KeyError")
            /\ UNCHANGED <<rd_cohort, calls, i>>
       ELSE LET c == Cohort(SelectById(rd_samples, args.s)) IN
            /\ rd_cohort' = c
            /\ calls' = Append(calls, [is_gtex |-> FALSE, ids |-> c.ids])
            /\ pc' = "run_rd"
            /\ i' = 1
            /\ UNCHANGED raised
    /\ UNCHANGED <<args, airtable, fs, rd_samples, new_muscle_rd_samples, gtex_samples,
                   gtex_cohort, batch, fetched, runs>>

\* main, lines 178-180.
SelectByTissueStep ==
    /\ Running("select_by_tissue")
    /\ IF TISSUE_COL \notin rd_samples.columns
       THEN /\ Raise("KeyError")
            /\ UNCHANGED new_muscle_rd_samples
       ELSE /\ new_muscle_rd_samples' = SelectByTissue(rd_samples, args.tissue)
            /\ pc' = "read_gtex"
            /\ UNCHANGED raised
    /\ UNCHANGED <<args, airtable, fs, rd_samples, gtex_samples, rd_cohort, gtex_cohort,
                   i, batch, calls, fetched, runs>>

\* main, lines 182-184: read_from_airtable of the downstream-analysis table.
ReadGtexSamples ==
    /\ Running("read_gtex")
    /\ fetched' = Append(fetched, DOWNSTREAM_ANALYSIS_TABLE_ID)
    /\ \/ \E records \in SeqsUpTo(Rows, IF rd_samples.rows = <<>> THEN MaxRows
                                               ELSE MaxRows + 1 - Len(rd_samples.rows)) :
             /\ airtable' = [airtable EXCEPT ![DOWNSTREAM_ANALYSIS_TABLE_ID] = records]
             /\ gtex_samples' = DataFrame(records)
             /\ pc' = "filter_prefix"
             /\ UNCHANGED raised
       \/ /\ Raise("HTTPError")
          /\ UNCHANGED <<gtex_samples, airtable>>
    /\ UNCHANGED <<args, fs, rd_samples, new_muscle_rd_samples, rd_cohort,
                   gtex_cohort, i, batch, calls, runs>>

\* main, line 185.  With a missing sample_id the mask of str.startswith holds
\* NaN under the object dtype, and indexing with it raises ValueError; under a
\* string dtype the mask holds False there.  Which one depends on the pandas
\* that is installed.
FilterGtexPrefix ==
    /\ Running("filter_prefix")
    /\ IF SAMPLE_ID_COL \notin gtex_samples.columns
       THEN /\ Raise("KeyError")
            /\ UNCHANGED gtex_samples
       ELSE \/ /\ HasNa(gtex_samples.rows, SAMPLE_ID_COL)
               /\ Raise("ValueError: Cannot mask with non-boolean array containing NA / NaN values")
               /\ UNCHANGED gtex_samples
            \/ /\ gtex_samples' = SelectByPrefix(gtex_samples)
               /\ pc' = "cohorts"
               /\ UNCHANGED raised
    /\ UNCHANGED <<args, airtable, fs, rd_samples, new_muscle_rd_samples, rd_cohort,
                   gtex_cohort, i, batch, calls, fetched, runs>>

\* main, lines 186-193: the tissue filter of the reference table, the four
\* arrays, and the call run_samples(batch, gtex_sample_ids, gtex_bam_files, True).
BuildCohorts ==
    /\ Running("cohorts")
    /\ IF \/ TISSUE_COL \notin gtex_samples.columns
          \/ SAMPLE_ID_COL \notin new_muscle_rd_samples.columns
          \/ BAM_COL \notin new_muscle_rd_samples.columns
          \/ BAM_COL \notin gtex_samples.columns
       THEN /\ Raise("KeyError")
            /\ UNCHANGED <<rd_cohort, gtex_cohort, calls, i>>
       ELSE LET g == Cohort(SelectByTissue(gtex_samples, args.tissue)) IN
            /\ rd_cohort' = Cohort(new_muscle_rd_samples)
            /\ gtex_cohort' = g
            /\ calls' = Append(calls, [is_gtex |-> TRUE, ids |-> g.ids])
            /\ pc' = "run_gtex"
            /\ i' = 1
            /\ UNCHANGED raised
    /\ UNCHANGED <<args, airtable, fs, rd_samples, new_muscle_rd_samples, gtex_samples,
                   batch, fetched, runs>>

InLoop == raised = "" /\ pc \in {"run_gtex", "run_rd"}
LoopCohort == IF pc = "run_gtex" THEN gtex_cohort ELSE rd_cohort
LoopIsGtex_Always == TRUE
\* The is_gtex argument of the run_samples call that is executing.
LoopIsGtex == pc = "run_gtex"

\* run_samples, lines 150-163: one iteration of the loop.
RunSamplesIter ==
    /\ InLoop
    /\ i <= Len(LoopCohort.ids)
    /\ LET cur_id == LoopCohort.ids[i]
           cur_bam == LoopCohort.bams[i]
           b1 == WithNewJobs(batch, cur_id)
       IN \/ \* hfs.stat(cur_bam) raises: the object does not exist
             /\ cur_bam \notin DOMAIN fs
             /\ batch' = b1
             /\ Raise("FileNotFoundError")
             /\ UNCHANGED <<fs, i>>
          \/ \E size \in Sizes :
                /\ cur_bam \in DOMAIN fs => size = fs[cur_bam]
                /\ fs' = [p \in DOMAIN fs \cup {cur_bam} |->
                             IF p = cur_bam THEN size ELSE fs[p]]
                /\ IF LoopIsGtex /\ SwitchAccountError # ""
                   THEN /\ batch' = WithResources(b1, size)
                        /\ Raise(SwitchAccountError)
                        /\ UNCHANGED i
                   ELSE /\ batch' = WithCommands(WithResources(b1, size),
                                                 cur_id, cur_bam, LoopIsGtex)
                        /\ i' = i + 1
                        /\ UNCHANGED <<pc, raised>>
    /\ UNCHANGED <<args, airtable, rd_samples, new_muscle_rd_samples, gtex_samples,
                   rd_cohort, gtex_cohort, calls, fetched, runs>>

\* run_samples returns: after the reference cohort main goes on to line 195,
\* after the primary cohort main returns.
RunSamplesReturn ==
    /\ InLoop
    /\ i > Len(LoopCohort.ids)
    /\ IF pc = "run_gtex"
       THEN /\ calls' = Append(calls, [is_gtex |-> FALSE, ids |-> rd_cohort.ids])
            /\ pc' = "run_rd"
            /\ i' = 1
       ELSE /\ pc' = "main_returned"
            /\ UNCHANGED <<calls, i>>
    /\ UNCHANGED <<args, airtable, fs, rd_samples, new_muscle_rd_samples, gtex_samples,
                   rd_cohort, gtex_cohort, batch, fetched, runs, raised>>

\* __main__, line 247.
BatchRun ==
    /\ Running("main_returned")
    /\ runs' = runs + 1
    /\ pc' = "done"
    /\ UNCHANGED <<args, airtable, fs, rd_samples, new_muscle_rd_samples, gtex_samples,
                   rd_cohort, gtex_cohort, i, batch, calls, fetched, raised>>

Next ==
    \/ ReadRdSamples
    \/ SelectByIdStep
    \/ SelectByTissueStep
    \/ ReadGtexSamples
    \/ FilterGtexPrefix
    \/ BuildCohorts
    \/ RunSamplesIter
    \/ RunSamplesReturn
    \/ BatchRun

Spec == Init /\ [][Next]_vars

(* ------------------------- reading the state ---------------------- *)
TissueMode == args.s = <<>>
IdMode == args.s # <<>>

Entries(c, gtex, n) ==
    [k \in 1..n |-> [row |-> c.rows[k], id |-> c.ids[k], bam |-> c.bams[k], is_gtex |-> gtex]]

\* The samples whose loop iteration has completed, in order.
Processed ==
    CASE pc = "run_gtex" -> Entries(gtex_cohort, TRUE, i - 1)
      [] pc = "run_rd" ->
            Entries(gtex_cohort, TRUE, Len(gtex_cohort.ids)) \o Entries(rd_cohort, FALSE, i - 1)
      [] pc \in {"main_returned", "done"} ->
            Entries(gtex_cohort, TRUE, Len(gtex_cohort.ids))
                \o Entries(rd_cohort, FALSE, Len(rd_cohort.ids))
      [] OTHER -> <<>>

\* The three jobs of the k-th processed sample.
FastqcJob(k) == batch.jobs[3 * k - 2]
MdJob(k) == batch.jobs[3 * k - 1]
ReadCountJob(k) == batch.jobs[3 * k]

\* The destinations batch.write_output was given for the output handle of a job.
Dests(job) ==
    {m \in 1..Len(batch.outputs) : batch.outputs[m].src = Ofile(job.uid)}

DestOf(job) == batch.outputs[CHOOSE m \in Dests(job) : TRUE].dest

HasId(row) == SAMPLE_ID_COL \in DOMAIN row
HasTissue(row) == TISSUE_COL \in DOMAIN row
IsGtexId(row) == HasId(row) /\ StartsWith(row[SAMPLE_ID_COL], GTEX_PREFIX)
MatchesTissue(row) == HasTissue(row) /\ row[TISSUE_COL] = args.tissue
Requested(row) == HasId(row) /\ row[SAMPLE_ID_COL] \in Range(args.s)

\* First atoms of the identity-switch commands, in the documented order.
SwitchHeads ==
    << "gcloud auth activate-service-account --key-file /gsa-key/key.json",
       "gsutil -m cp -r ",
       "rm -rf ~/.config",
       "mv /tmp/.config ~/",
       "gcloud config set account ",
       "gcloud config set project ",
       "export GOOGLE_APPLICATION_CREDENTIALS=$(find ~/.config/ -name 'adc.json')" >>

IsSwitchCmd(cmd) == cmd[1] \in Range(SwitchHeads)
IsCd(cmd) == cmd = <<"cd /io">>
IsRemoteCopy(cmd) == cmd[1] = "gsutil -u "
IsLocalLink(cmd) == cmd[1] = "ln -s "
IsStaging(cmd) == IsRemoteCopy(cmd) \/ IsLocalLink(cmd)
IsTool(cmd) ==
    cmd[1] \in {"java -jar /base/usr/picard/picard.jar MarkDuplicates ", "fastqc ",
                "samtools view -c ", "samtools view -c -F 260 "}
IsCopyTo(cmd, ofile) ==
    /\ cmd[1] \in {"cp marked_dup_metrics.txt ", "cp *.html "}
    /\ SubSeq(cmd, 2, 1 + Len(ofile)) = ofile

Where(cmds, P(_)) == {k \in 1..Len(cmds) : P(cmds[k])}

HasSwitchSequence(job) ==
    /\ Len(job.cmds) >= Len(SwitchHeads)
    /\ \A k \in 1..Len(SwitchHeads) : job.cmds[k][1] = SwitchHeads[k]
    /\ Where(job.cmds, IsSwitchCmd) = 1..Len(SwitchHeads)

HasNoSwitch(job) == Where(job.cmds, IsSwitchCmd) = {}

(* ================================ C1 ================================== *)
\* C1: every processed sample has exactly three jobs (fastqc, md, read_count,
\* in this order), each with exactly one output destination, the three
\* destinations being pairwise distinct and equal to
\* {out_dir}/{sample_id}.html, {out_dir}/{sample_id}_marked_dup_metrics.txt
\* and {out_dir}/{sample_id}_read_counts.txt.
C1_ThreeJobsAndPaths ==
    /\ Len(batch.jobs) = 3 * Len(Processed) + (IF raised # "" /\ pc \in {"run_gtex", "run_rd"} THEN 3 ELSE 0)
    /\ Len(batch.outputs) = 3 * Len(Processed)
    /\ \A k \in 1..Len(Processed) :
          LET sid == Fstr(Processed[k].id)
              out == args.out_dir \o <<"/">> \o sid IN
          /\ FastqcJob(k).name = sid \o <<"_fastqc">>
          /\ MdJob(k).name = sid \o <<"_md">>
          /\ ReadCountJob(k).name = sid \o <<"_read_count">>
          /\ \A j \in {FastqcJob(k), MdJob(k), ReadCountJob(k)} : Cardinality(Dests(j)) = 1
          /\ DestOf(FastqcJob(k)) = out \o <<".html">>
          /\ DestOf(MdJob(k)) = out \o <<"_marked_dup_metrics.txt">>
          /\ DestOf(ReadCountJob(k)) = out \o <<"_read_counts.txt">>
          /\ Cardinality({DestOf(FastqcJob(k)), DestOf(MdJob(k)), DestOf(ReadCountJob(k))}) = 3

C1_Witness ==
    /\ pc = "done"
    /\ \E a, b \in 1..Len(Processed) : Processed[a].is_gtex /\ ~Processed[b].is_gtex

(* ================================ C2 ================================== *)
ProcessedIds(gtex) ==
    {Processed[k].id : k \in {m \in 1..Len(Processed) : Processed[m].is_gtex = gtex}}

\* The rows of the two tables whose tissue is the requested one.
TissueMatchingInput ==
    SelectSeq(airtable[DATA_PATHS_TABLE_ID] \o airtable[DOWNSTREAM_ANALYSIS_TABLE_ID],
              MatchesTissue)

\* C2: in a completed tissue-filtered run the reference cohort and the primary
\* cohort are disjoint, together they are exactly the tissue-matching input
\* samples, and a sample is in the reference cohort iff its identifier starts
\* with "GTEX" (no GTEX-prefixed sample is processed as primary, none twice).
C2_SplitIsPartition ==
    (TissueMode /\ pc = "done") =>
        /\ ProcessedIds(TRUE) \cap ProcessedIds(FALSE) = {}
        /\ Len(Processed) = Len(TissueMatchingInput)
        /\ {Processed[k].row : k \in 1..Len(Processed)} = Range(TissueMatchingInput)
        /\ \A k \in 1..Len(Processed) : Processed[k].is_gtex <=> IsGtexId(Processed[k].row)

C4_SelectByTissue ==
    TissueMode =>
        /\ pc \in {"read_gtex", "filter_prefix", "cohorts", "run_gtex", "run_rd",
                   "main_returned", "done"} =>
              new_muscle_rd_samples.rows = SelectSeq(rd_samples.rows, MatchesTissue)
        /\ pc \in {"run_gtex", "run_rd", "main_returned", "done"} =>
              /\ rd_cohort.rows = SelectSeq(airtable[DATA_PATHS_TABLE_ID], MatchesTissue)
              /\ gtex_cohort.rows = SelectSeq(gtex_samples.rows, MatchesTissue)
        /\ \A k \in 1..Len(Processed) :
              /\ HasTissue(Processed[k].row)
              /\ Processed[k].row[TISSUE_COL] = args.tissue
        /\ pc \in {"main_returned", "done"} =>
              Len(batch.jobs) = 3 * (Len(SelectSeq(airtable[DATA_PATHS_TABLE_ID], MatchesTissue))
                                     + Len(SelectSeq(gtex_samples.rows, MatchesTissue)))

C4_Witness ==
    /\ pc = "done"
    /\ TissueMode
    /\ args.tissue = "Muscle"
    /\ \E a, b \in 1..Len(rd_samples.rows) :
          /\ MatchesTissue(rd_samples.rows[a])
          /\ HasTissue(rd_samples.rows[b]) /\ rd_samples.rows[b][TISSUE_COL] = "muscle"
    /\ Len(rd_cohort.rows) = 1
    /\ Len(gtex_cohort.rows) = 1
    /\ Len(batch.jobs) = 6

(* ================================ C5 ================================== *)
\* C5: with -s exactly one cohort is processed: run_samples is called once,
\* with is_gtex = False, on the id-selected rows; --tissue does not enter the
\* selection, the downstream-analysis table is never fetched, and no job holds
\* an identity-switch command.
C5_IdModeSingleCohort ==
    IdMode =>
        /\ \A k \in 1..Len(fetched) : fetched[k] = DATA_PATHS_TABLE_ID
        /\ Len(fetched) <= 1
        /\ airtable[DOWNSTREAM_ANALYSIS_TABLE_ID] = <<>> /\ gtex_samples = EmptyDF
        /\ gtex_cohort = EmptyCohort
        /\ Len(calls) <= 1
        /\ pc \in {"run_rd", "main_returned", "done"} =>
              /\ Len(calls) = 1
              /\ ~calls[1].is_gtex
              /\ calls[1].ids = Column(SelectSeq(airtable[DATA_PATHS_TABLE_ID], Requested),
                                       SAMPLE_ID_COL)
        /\ \A k \in 1..Len(Processed) : ~Processed[k].is_gtex
        /\ \A k \in 1..Len(batch.jobs) :
              /\ HasNoSwitch(batch.jobs[k])
              /\ Where(batch.jobs[k].cmds, IsRemoteCopy) = {}

C5_Witness ==
    /\ pc = "done"
    /\ args.s = <<RDG7>>
    /\ Len(batch.jobs) = 3
    /\ \E k \in 1..Len(rd_samples.rows) :
          /\ Requested(rd_samples.rows[k])
          /\ ~MatchesTissue(rd_samples.rows[k])
    /\ \E k \in 1..Len(rd_samples.rows) : IsGtexId(rd_samples.rows[k])

(* ================================ C6 ================================== *)
JobsOf(k) == {FastqcJob(k), MdJob(k), ReadCountJob(k)}

\* C6: a completed tissue-filtered run whose input holds one GTEX-prefixed and
\* one other sample of the requested tissue builds exactly six jobs: three for
\* the GTEX sample, each with the identity-switch sequence and a gsutil cp of
\* the BAM, three for the other, each with ln -s and no identity switch; and in
\* general a job built with is_gtex = True holds the switch sequence and a job
\* built with is_gtex = False holds none.
C6_SixJobsScenario ==
    /\ (/\ TissueMode
        /\ pc = "done"
        /\ Len(TissueMatchingInput) = 2
        /\ \E a, b \in 1..2 :
              /\ IsGtexId(TissueMatchingInput[a])
              /\ HasId(TissueMatchingInput[b]) /\ ~IsGtexId(TissueMatchingInput[b]))
       => /\ Len(batch.jobs) = 6
          /\ \A k \in 1..Len(Processed) :
                IF IsGtexId(Processed[k].row)
                THEN \A j \in JobsOf(k) :
                        HasSwitchSequence(j) /\ Where(j.cmds, IsRemoteCopy) # {}
                ELSE \A j \in JobsOf(k) :
                        HasNoSwitch(j) /\ Where(j.cmds, IsLocalLink) # {}
    /\ \A k \in 1..Len(Processed) :
          \A j \in JobsOf(k) :
             IF Processed[k].is_gtex THEN HasSwitchSequence(j) ELSE HasNoSwitch(j)

(* ================================ C7 ================================== *)
EffectiveCpu(job) == IF job.cpu = <<>> THEN batch.default_cpu ELSE job.cpu[1]
EffectiveStorage(job) == IF job.storage = <<>> THEN batch.default_storage ELSE job.storage[1]

\* C7: the read-count job of a processed sample declares as storage exactly the
\* byte size hfs.stat gave for its BAM, and 1 CPU; the fastqc and
\* mark-duplicates jobs set neither and run with the batch defaults 50G and 16.
C7_ReadCountResources ==
    \A k \in 1..Len(Processed) :
        /\ Processed[k].bam \in DOMAIN fs
        /\ ReadCountJob(k).storage = <<fs[Processed[k].bam]>>
        /\ ReadCountJob(k).cpu = <<1>>
        /\ EffectiveCpu(ReadCountJob(k)) = 1
        /\ \A j \in {FastqcJob(k), MdJob(k)} :
              /\ j.storage = <<>> /\ j.cpu = <<>>
              /\ EffectiveStorage(j) = "50G"
              /\ EffectiveCpu(j) = 16

C7_Witness ==
    /\ pc = "done"
    /\ \E a, b \in 1..Len(Processed) :
          /\ ReadCountJob(a).storage = <<1025>>
          /\ ReadCountJob(b).storage = <<0>>

(* ================================ C8 ================================== *)
Before(A, B) == \A a \in A : \A b \in B : a < b

\* Steps (1)-(4) of a job: the switch sequence iff is_gtex, then cd /io, then
\* the staging of the BAM, then the tool.
StepsOneToFour(job, is_gtex) ==
    LET sw == Where(job.cmds, IsSwitchCmd)
        cd == Where(job.cmds, IsCd)
        st == Where(job.cmds, IsStaging)
        tl == Where(job.cmds, IsTool) IN
    /\ IF is_gtex THEN HasSwitchSequence(job) ELSE sw = {}
    /\ Cardinality(cd) = 1 /\ Cardinality(st) = 1 /\ tl # {}
    /\ Before(sw, cd) /\ Before(cd, st) /\ Before(st, tl)
    /\ IF is_gtex THEN Where(job.cmds, IsRemoteCopy) = st ELSE Where(job.cmds, IsLocalLink) = st

\* Step (5): one copy of the artifact to the job's output handle, after the tool.
StepFive(job) ==
    LET cp == {k \in 1..Len(job.cmds) : IsCopyTo(job.cmds[k], Ofile(job.uid))} IN
    /\ Cardinality(cp) = 1
    /\ Before(Where(job.cmds, IsTool), cp)

\* C8 as stated: every job of every kind holds the steps (1)-(5) in this
\* order, none missing.
C8_AllFiveSteps ==
    \A k \in 1..Len(Processed) :
        \A j \in JobsOf(k) : StepsOneToFour(j, Processed[k].is_gtex) /\ StepFive(j)

\* C8, amended: every job holds the steps (1)-(4) in order; the fastqc and the
\* mark-duplicates job end with step (5), the copy to the output handle; the
\* read-count job has no copy command: its two samtools commands redirect
\* their output into the output handle themselves.
C8_CommandOrder ==
    \A k \in 1..Len(Processed) :
        /\ \A j \in JobsOf(k) : StepsOneToFour(j, Processed[k].is_gtex)
        /\ StepFive(FastqcJob(k))
        /\ StepFive(MdJob(k))
        /\ LET j == ReadCountJob(k)
               of == Ofile(j.uid)
               tl == Where(j.cmds, IsTool) IN
           /\ \A m \in 1..Len(j.cmds) : ~IsCopyTo(j.cmds[m], of)
           /\ Cardinality(tl) = 2
           /\ \A m \in tl :
                 SubSeq(j.cmds[m], Len(j.cmds[m]) - Len(of) + 1, Len(j.cmds[m])) = of

C8_Witness ==
    /\ pc = "done"
    /\ \E a, b \in 1..Len(Processed) :
          /\ Processed[a].is_gtex /\ Len(MdJob(a).cmds) = 13
          /\ ~Processed[b].is_gtex /\ Len(MdJob(b).cmds) = 6

(* ================================ C9 ================================== *)
CohortRows == Range(rd_cohort.rows) \cup Range(gtex_cohort.rows)
NaMaskError == "ValueError: Cannot mask with non-boolean array containing NA / NaN values"
NoRowHas(rows, col) == \A k \in 1..Len(rows) : col \notin DOMAIN rows[k]

\* C9 as stated: a row without tissue or without sample id is in no cohort, in
\* either mode and for either table, and no exception is raised because of
\* such a row.
C9_NullRowsSilentlyDropped ==
    /\ \A r \in CohortRows : HasId(r) /\ HasTissue(r)
    /\ raised \in {"KeyError", NaMaskError} =>
          \A r \in Range(airtable[DATA_PATHS_TABLE_ID])
                    \cup Range(airtable[DOWNSTREAM_ANALYSIS_TABLE_ID]) :
             HasId(r) /\ HasTissue(r)

\* C9, amended: in a tissue run no row without tissue is in a cohort, and in a
\* -s run no row without sample id is; the other rows are selected and get
\* their three jobs.  But a -s run selects a requested row that has no tissue;
\* a tissue run selects a data-paths row of the tissue that has no sample id
\* and names its jobs nan_*; a reference-table row without sample id makes the
\* prefix filter raise ValueError before any job is built, unless the pandas
\* in use answers False for it; and a table in which no row has the field
\* raises KeyError.
C9_NullRows ==
    /\ TissueMode => \A r \in CohortRows : HasTissue(r)
    /\ IdMode => \A r \in CohortRows : HasId(r)
    /\ (IdMode /\ pc \in {"run_rd", "main_returned", "done"}) =>
          \A r \in Range(airtable[DATA_PATHS_TABLE_ID]) :
             Requested(r) => r \in Range(rd_cohort.rows)
    /\ (TissueMode /\ pc \in {"run_gtex", "run_rd", "main_returned", "done"}) =>
          /\ \A r \in Range(airtable[DATA_PATHS_TABLE_ID]) :
                MatchesTissue(r) => r \in Range(rd_cohort.rows)
          /\ \A r \in Range(airtable[DOWNSTREAM_ANALYSIS_TABLE_ID]) :
                (MatchesTissue(r) /\ IsGtexId(r)) => r \in Range(gtex_cohort.rows)
          /\ \A r \in Range(gtex_cohort.rows) : HasId(r)
    /\ pc \in {"main_returned", "done"} =>
          Len(batch.jobs) = 3 * (Len(rd_cohort.rows) + Len(gtex_cohort.rows))
    /\ \A k \in 1..Len(Processed) :
          ~HasId(Processed[k].row) =>
             /\ TissueMode /\ ~Processed[k].is_gtex
             /\ FastqcJob(k).name = <<"n", "a", "n", "_fastqc">>
    /\ raised = NaMaskError =>
          /\ TissueMode /\ pc = "filter_prefix"
          /\ HasNa(airtable[DOWNSTREAM_ANALYSIS_TABLE_ID], SAMPLE_ID_COL)
          /\ batch.jobs = <<>>
    /\ raised = "KeyError" =>
          \/ pc = "select_by_id" /\ NoRowHas(airtable[DATA_PATHS_TABLE_ID], SAMPLE_ID_COL)
          \/ pc = "select_by_tissue" /\ NoRowHas(airtable[DATA_PATHS_TABLE_ID], TISSUE_COL)
          \/ pc = "filter_prefix" /\ NoRowHas(airtable[DOWNSTREAM_ANALYSIS_TABLE_ID], SAMPLE_ID_COL)
          \/ /\ pc = "cohorts"
             /\ \/ NoRowHas(airtable[DOWNSTREAM_ANALYSIS_TABLE_ID], TISSUE_COL)
                \/ NoRowHas(airtable[DATA_PATHS_TABLE_ID], SAMPLE_ID_COL)

C9_Witness ==
    /\ pc = "done"
    /\ IdMode
    /\ HasNa(rd_samples.rows, SAMPLE_ID_COL)
    /\ \E r \in Range(rd_cohort.rows) : ~HasTissue(r)
    /\ Len(batch.jobs) = 3 * Len(rd_cohort.rows)

(* ================================ C10 ================================= *)
AllIds == gtex_cohort.ids \o rd_cohort.ids

\* C10: all jobs go to the one batch, reference cohort first; batch.run() is
\* invoked at most once, and only when every job of every cohort is fully
\* built; once anything has raised it is never invoked.
C10_RunOnceAfterBuild ==
    /\ runs \in {0, 1}
    /\ runs = 1 <=> pc = "done"
    /\ raised # "" => runs = 0
    /\ pc = "done" =>
          /\ raised = ""
          /\ Len(fetched) = Len(calls)
          /\ Len(calls) = IF TissueMode THEN 2 ELSE 1
          /\ TissueMode => calls[1].is_gtex /\ ~calls[2].is_gtex
          /\ ~calls[Len(calls)].is_gtex
          /\ Len(batch.jobs) = 3 * Len(AllIds)
          /\ \A k \in 1..Len(AllIds) :
                /\ FastqcJob(k).name = Fstr(AllIds[k]) \o <<"_fastqc">>
                /\ MdJob(k).name = Fstr(AllIds[k]) \o <<"_md">>
                /\ ReadCountJob(k).name = Fstr(AllIds[k]) \o <<"_read_count">>
                /\ (k <= Len(gtex_cohort.ids)) <=> HasSwitchSequence(FastqcJob(k))
          /\ \A k \in 1..Len(batch.jobs) :
                /\ Where(batch.jobs[k].cmds, IsTool) # {}
                /\ Cardinality(Dests(batch.jobs[k])) = 1

C10_Witness ==
    /\ pc = "done"
    /\ runs = 1
    /\ Len(gtex_cohort.ids) >= 1
    /\ Len(rd_cohort.ids) >= 1

=============================================================================
